---- MODULE Spec2Model ----
(***************************************************************************)
(* Model of inventory_dynamic.py, an Ansible dynamic inventory script.     *)
(*                                                                         *)
(* One process invocation runs the __main__ block: it classifies sys.argv, *)
(* and either builds the inventory with get_inventory() and prints it as   *)
(* JSON, prints an empty JSON object for --host, or prints the usage line  *)
(* and exits 1.  The calling shell may then run the script again, with the *)
(* same or another environment and argument vector.                        *)
(*                                                                         *)
(* Python values are tagged records [t, v]: "none", "str", "list", "dict". *)
(* A dict's v is a function from its string keys to Python values.  The    *)
(* JSON text produced by json.dumps is modelled by the JSON value it       *)
(* denotes: "null", "string", "array", "object".                           *)
(***************************************************************************)
EXTENDS Integers, Sequences, FiniteSets, TLC

VARIABLES
    environ,    \* os.environ of the running process: name -> string, set names only
    argv,       \* sys.argv, argv[1] being the script name
    pc,         \* position of the process in the script
    inventory,  \* local variable `inventory` of get_inventory
    partial,    \* the adapter result about to be merged by inventory.update
    called,     \* history: the provider adapters this invocation dispatched to
    stdout,     \* the lines printed on standard output, in order
    exit_code,  \* exit status of the process, -1 while it runs
    prev        \* history: the environment and output of the last finished --list run

vars == <<environ, argv, pc, inventory, partial, called, stdout, exit_code, prev>>

\* Longest list of extra command-line arguments explored.
MaxArgs == 3

(***************************************************************************)
(* Python values                                                           *)
(***************************************************************************)
PyNone == [t |-> "none", v |-> <<>>]

PyStr(s) == [t |-> "str", v |-> s]

PyList(s) == [t |-> "list", v |-> s]

PyDict(f) == [t |-> "dict", v |-> f]

\* Python's == on the values used by the script.
PyEq(a, b) == a.t = b.t /\ a.v = b.v

\* The name a local variable has before its first assignment.
Unbound == [t |-> "unbound", v |-> <<>>]

(***************************************************************************)
(* Inputs: the environment and the argument vector                         *)
(***************************************************************************)
Script == "inventory_dynamic.py"

\* An optional string is <<>> (variable absent) or <<s>> (variable set to s).
SourceChoices == {<<>>, <<"aws">>, <<"digitalocean">>, <<"AWS">>, <<"">>, <<"gce">>}

UserChoices == {<<>>, <<"deploy">>, <<"">>}

PasswordChoices == {<<>>, <<"s3cret">>}

EnvOf(src, usr, pwd) ==
    LET opt == [ANSIBLE_INVENTORY_SOURCE |-> src,
                ANSIBLE_USER |-> usr,
                ANSIBLE_PASSWORD |-> pwd]
    IN  [k \in {n \in DOMAIN opt : opt[n] # <<>>} |-> opt[k][1]]

Environs ==
    {EnvOf(s, u, p) : s \in SourceChoices, u \in UserChoices, p \in PasswordChoices}

ArgWords == {"--list", "--host", "dev-server", "web1"}

ExtraArgs == UNION {[1..n -> ArgWords] : n \in 0..MaxArgs}

Argvs == {<<Script>> \o a : a \in ExtraArgs}

(***************************************************************************)
(* Library functions                                                       *)
(***************************************************************************)
\* The bug of treating a variable as consumed by an earlier invocation.
GetenvConsumed(name, default) ==
    IF name \in DOMAIN environ /\ ~prev.ran THEN PyStr(environ[name]) ELSE default

\* The bug of `os.getenv(name) or default`: an empty value counts as absent.
GetenvOrDefault(name, default) ==
    IF name \in DOMAIN environ /\ environ[name] # "" THEN PyStr(environ[name]) ELSE default

\* os.getenv(name, default): the value if the variable is set, else default.
Getenv(name, default) ==
    IF name \in DOMAIN environ THEN PyStr(environ[name]) ELSE default

\* The bug of a merge that keeps the existing value on a key collision.
UpdateKeepExisting(d, other) ==
    PyDict([k \in DOMAIN d.v \cup DOMAIN other.v |->
               IF k \in DOMAIN d.v THEN d.v[k] ELSE other.v[k]])

\* dict.update(other): every key of other is written over d.
Update(d, other) ==
    PyDict([k \in DOMAIN d.v \cup DOMAIN other.v |->
               IF k \in DOMAIN other.v THEN other.v[k] ELSE d.v[k]])

\* json.dumps: the JSON value the produced text denotes.
RECURSIVE JsonDumps(_)
JsonDumps(o) ==
    CASE o.t = "dict" -> [t |-> "object", v |-> [k \in DOMAIN o.v |-> JsonDumps(o.v[k])]]
      [] o.t = "list" -> [t |-> "array", v |-> [i \in DOMAIN o.v |-> JsonDumps(o.v[i])]]
      [] o.t = "str"  -> [t |-> "string", v |-> o.v]
      [] o.t = "none" -> [t |-> "null", v |-> <<>>]

\* A line of plain text on standard output, as its fragments.
TextLine(fragments) == [t |-> "text", v |-> fragments]

(***************************************************************************)
(* get_inventory and the adapters                                          *)
(***************************************************************************)
\* The bug of starting from an empty document.
BaseEmpty == PyDict(<<>>)

\* The base inventory structure.
BaseInventory == PyDict([_meta |-> PyDict([hostvars |-> PyDict(<<>>)])])

get_aws_inventory == PyDict(<<>>)

get_do_inventory == PyDict(<<>>)

\* The bug of a static source that forgets the host's _meta entry.
StaticNoMeta ==
    PyDict([servers |-> PyDict([
                hosts |-> PyList(<<PyStr("dev-server")>>),
                vars |-> PyDict([
                    ansible_user |-> Getenv("ANSIBLE_USER", PyStr("ansible")),
                    ansible_become_password |-> Getenv("ANSIBLE_PASSWORD", PyNone)])])])

\* The default static inventory literal.
StaticInventory ==
    PyDict([servers |-> PyDict([
                hosts |-> PyList(<<PyStr("dev-server")>>),
                vars |-> PyDict([
                    ansible_user |-> Getenv("ANSIBLE_USER", PyStr("ansible")),
                    ansible_become_password |-> Getenv("ANSIBLE_PASSWORD", PyNone)])]),
            _meta |-> PyDict([
                hostvars |-> PyDict("dev-server" :> PyDict([
                    ansible_host |-> PyStr("192.168.88.2"),
                    ansible_password |-> Getenv("ANSIBLE_PASSWORD", PyNone)]))])])

\* The bug of comparing the selector without regard to case.
IsAwsAnyCase ==
    \E s \in {"aws", "AWS"} : PyEq(Getenv("ANSIBLE_INVENTORY_SOURCE", PyNone), PyStr(s))

\* The condition of the `if`.
IsAws == PyEq(Getenv("ANSIBLE_INVENTORY_SOURCE", PyNone), PyStr("aws"))

\* The condition of the `elif`.
IsDigitalOcean == PyEq(Getenv("ANSIBLE_INVENTORY_SOURCE", PyNone), PyStr("digitalocean"))

\* The value get_inventory returns in the current environment.
get_inventory ==
    Update(BaseInventory,
           IF IsAws THEN get_aws_inventory
           ELSE IF IsDigitalOcean THEN get_do_inventory
           ELSE StaticInventory)

(***************************************************************************)
(* The __main__ block                                                      *)
(***************************************************************************)
\* The bug of accepting --list whatever follows it.
IsListLoose == Len(argv) >= 2 /\ argv[2] = "--list"

\* len(sys.argv) == 2 and sys.argv[1] == '--list'
IsList == Len(argv) = 2 /\ argv[2] = "--list"

\* The bug of testing the wrong argument for --host.
IsHostWrongIndex == Len(argv) = 3 /\ argv[3] = "--host"

\* len(sys.argv) == 3 and sys.argv[1] == '--host'
IsHost == Len(argv) = 3 /\ argv[2] = "--host"

UsageText ==
    TextLine(<<"Usage: ", argv[1], " --list or ", argv[1], " --host <hostname>">>)

NoPrev == [ran |-> FALSE, environ |-> <<>>, stdout |-> <<>>]

Init ==
    /\ environ \in Environs
    /\ argv \in Argvs
    /\ pc = "main"
    /\ inventory = Unbound
    /\ partial = Unbound
    /\ called = <<>>
    /\ stdout = <<>>
    /\ exit_code = -1
    /\ prev = NoPrev

\* --list branch taken: get_inventory is entered.
CallGetInventory ==
    /\ pc = "main"
    /\ IsList
    /\ pc' = "gi_init"
    /\ UNCHANGED <<environ, argv, inventory, partial, called, stdout, exit_code, prev>>

\* inventory = {"_meta": {"hostvars": {}}}
InitInventory ==
    /\ pc = "gi_init"
    /\ inventory' = BaseInventory
    /\ pc' = "gi_select"
    /\ UNCHANGED <<environ, argv, partial, called, stdout, exit_code, prev>>

\* if ... == 'aws': the argument get_aws_inventory() is evaluated.
SelectAws ==
    /\ pc = "gi_select"
    /\ IsAws
    /\ partial' = get_aws_inventory
    /\ called' = Append(called, "aws")
    /\ pc' = "gi_update"
    /\ UNCHANGED <<environ, argv, inventory, stdout, exit_code, prev>>

\* elif ... == 'digitalocean': the argument get_do_inventory() is evaluated.
SelectDigitalOcean ==
    /\ pc = "gi_select"
    /\ ~IsAws
    /\ IsDigitalOcean
    /\ partial' = get_do_inventory
    /\ called' = Append(called, "digitalocean")
    /\ pc' = "gi_update"
    /\ UNCHANGED <<environ, argv, inventory, stdout, exit_code, prev>>

\* The bug of writing the `elif` as a second `if`: after the aws branch has
\* merged its result, the else branch of the second `if` runs as well.
SelectDefaultAfterIf ==
    /\ pc = "gi_select"
    /\ ~IsDigitalOcean
    /\ inventory' = IF IsAws THEN Update(inventory, get_aws_inventory) ELSE inventory
    /\ partial' = StaticInventory
    /\ called' = IF IsAws THEN called \o <<"aws", "default">> ELSE Append(called, "default")
    /\ pc' = "gi_update"
    /\ UNCHANGED <<environ, argv, stdout, exit_code, prev>>

\* else: the static literal is evaluated.
SelectDefault ==
    /\ pc = "gi_select"
    /\ ~IsAws
    /\ ~IsDigitalOcean
    /\ partial' = StaticInventory
    /\ called' = Append(called, "default")
    /\ pc' = "gi_update"
    /\ UNCHANGED <<environ, argv, inventory, stdout, exit_code, prev>>

\* inventory.update(<adapter result>), then `return inventory`.
Merge ==
    /\ pc = "gi_update"
    /\ inventory' = Update(inventory, partial)
    /\ pc' = "gi_return"
    /\ UNCHANGED <<environ, argv, partial, called, stdout, exit_code, prev>>

\* print(json.dumps(get_inventory(), indent=2)); the script ends, status 0.
PrintList ==
    /\ pc = "gi_return"
    /\ stdout' = Append(stdout, JsonDumps(inventory))
    /\ exit_code' = 0
    /\ pc' = "exited"
    /\ UNCHANGED <<environ, argv, inventory, partial, called, prev>>

\* --host branch: print(json.dumps({})); the script ends, status 0.
HostMode ==
    /\ pc = "main"
    /\ ~IsList
    /\ IsHost
    /\ stdout' = Append(stdout, JsonDumps(PyDict(<<>>)))
    /\ exit_code' = 0
    /\ pc' = "exited"
    /\ UNCHANGED <<environ, argv, inventory, partial, called, prev>>

\* else branch: print the usage line; sys.exit(1).
Usage ==
    /\ pc = "main"
    /\ ~IsList
    /\ ~IsHost
    /\ stdout' = Append(stdout, UsageText)
    /\ exit_code' = 1
    /\ pc' = "exited"
    /\ UNCHANGED <<environ, argv, inventory, partial, called, prev>>

\* The process is gone: the shell that ran it keeps only what it printed.
Wait ==
    /\ pc = "exited"
    /\ prev' = IF IsList
               THEN [ran |-> TRUE, environ |-> environ, stdout |-> stdout]
               ELSE prev
    /\ pc' = "shell"
    /\ argv' = <<Script>>
    /\ inventory' = Unbound
    /\ partial' = Unbound
    /\ called' = <<>>
    /\ stdout' = <<>>
    /\ exit_code' = -1
    /\ UNCHANGED environ

\* The shell runs the script again: a fresh process with its own environment
\* and argument vector.
Exec ==
    /\ pc = "shell"
    /\ environ' \in Environs
    /\ argv' \in Argvs
    /\ pc' = "main"
    /\ UNCHANGED <<inventory, partial, called, stdout, exit_code, prev>>

Next ==
    \/ CallGetInventory
    \/ InitInventory
    \/ SelectAws
    \/ SelectDigitalOcean
    \/ SelectDefault
    \/ Merge
    \/ PrintList
    \/ HostMode
    \/ Usage
    \/ Wait
    \/ Exec

Spec == Init /\ [][Next]_vars

(***************************************************************************)
(* Properties                                                              *)
(***************************************************************************)
\* The selector is one of the two recognized values.
SelectorRecognized ==
    /\ "ANSIBLE_INVENTORY_SOURCE" \in DOMAIN environ
    /\ environ["ANSIBLE_INVENTORY_SOURCE"] \in {"aws", "digitalocean"}

\* The values the static source is expected to substitute.
ExpectedUser ==
    IF "ANSIBLE_USER" \in DOMAIN environ
    THEN [t |-> "str", v |-> environ["ANSIBLE_USER"]]
    ELSE [t |-> "str", v |-> "ansible"]

ExpectedPassword ==
    IF "ANSIBLE_PASSWORD" \in DOMAIN environ
    THEN [t |-> "str", v |-> environ["ANSIBLE_PASSWORD"]]
    ELSE [t |-> "none", v |-> <<>>]

\* The static document, written out value by value.
ExpectedStaticDocument ==
    [t |-> "dict", v |->
        [servers |-> [t |-> "dict", v |->
            [hosts |-> [t |-> "list", v |-> <<[t |-> "str", v |-> "dev-server"]>>],
             vars |-> [t |-> "dict", v |->
                [ansible_user |-> ExpectedUser,
                 ansible_become_password |-> ExpectedPassword]]]],
         _meta |-> [t |-> "dict", v |->
            [hostvars |-> [t |-> "dict", v |->
                ("dev-server" :> [t |-> "dict", v |->
                    [ansible_host |-> [t |-> "str", v |-> "192.168.88.2"],
                     ansible_password |-> ExpectedPassword]])]]]]]

\* The extra command-line arguments, without the script name.
Extra == SubSeq(argv, 2, Len(argv))

\* C1: whenever the selector is anything but exactly 'aws' or 'digitalocean'
\* (absent, empty, 'AWS', 'gce'), get_inventory returns exactly the static
\* document: group servers with host dev-server and the substituted user and
\* password, and one hostvars entry for dev-server.
C1_DefaultFallback ==
    (pc = "gi_return" /\ ~SelectorRecognized) => inventory = ExpectedStaticDocument

C1_Witness ==
    /\ pc = "gi_return"
    /\ "ANSIBLE_INVENTORY_SOURCE" \in DOMAIN environ
    /\ environ["ANSIBLE_INVENTORY_SOURCE"] = "AWS"
    /\ "ANSIBLE_PASSWORD" \in DOMAIN environ
    /\ inventory = ExpectedStaticDocument

\* C2: the document --list prints is always a mapping holding '_meta', itself
\* a mapping holding 'hostvars', itself a mapping; the same holds of the
\* document get_inventory returns after the merge.
C2_MetaHostvarsMapping ==
    /\ pc = "gi_return" =>
        /\ inventory.t = "dict"
        /\ "_meta" \in DOMAIN inventory.v
        /\ inventory.v["_meta"].t = "dict"
        /\ "hostvars" \in DOMAIN inventory.v["_meta"].v
        /\ inventory.v["_meta"].v["hostvars"].t = "dict"
    /\ (pc = "exited" /\ Extra = <<"--list">>) =>
        /\ Len(stdout) = 1
        /\ stdout[1].t = "object"
        /\ "_meta" \in DOMAIN stdout[1].v
        /\ stdout[1].v["_meta"].t = "object"
        /\ "hostvars" \in DOMAIN stdout[1].v["_meta"].v
        /\ stdout[1].v["_meta"].v["hostvars"].t = "object"

C2_Witness ==
    /\ pc = "exited"
    /\ Extra = <<"--list">>
    /\ called = <<"aws">>
    /\ stdout[1].v["_meta"].v["hostvars"].t = "object"

\* C3: the command line has exactly three outcomes: --list alone prints the
\* inventory and exits 0; --host with one hostname prints a mapping and exits
\* 0; every other argument vector prints only the usage line and exits 1.
C3_CommandLineOutcomes ==
    pc = "exited" =>
        /\ Len(stdout) = 1
        /\ IF Extra = <<"--list">>
           THEN /\ stdout[1].t = "object"
                /\ "_meta" \in DOMAIN stdout[1].v
                /\ stdout[1] = JsonDumps(inventory)
                /\ Len(called) = 1
                /\ exit_code = 0
           ELSE IF Len(Extra) = 2 /\ Extra[1] = "--host"
           THEN /\ stdout[1].t = "object"
                /\ called = <<>>
                /\ exit_code = 0
           ELSE /\ stdout[1] = [t |-> "text", v |->
                       <<"Usage: ", Script, " --list or ", Script, " --host <hostname>">>]
                /\ called = <<>>
                /\ inventory.t = "unbound"
                /\ exit_code = 1

C3_Witness ==
    /\ pc = "exited"
    /\ Extra = <<"--list", "web1">>
    /\ exit_code = 1
    /\ stdout[1].t = "text"

\* C4: with the default source, --host dev-server prints a mapping carrying
\* the ansible_host and ansible_password of the hostvars entry that --list
\* printed in the same environment.
C4_HostMatchesList ==
    (/\ pc = "exited"
     /\ Extra = <<"--host", "dev-server">>
     /\ ~SelectorRecognized
     /\ prev.ran
     /\ prev.environ = environ) =>
        LET listed == prev.stdout[1].v["_meta"].v["hostvars"].v["dev-server"].v
            shown == stdout[1].v
        IN  /\ {"ansible_host", "ansible_password"} \subseteq DOMAIN shown
            /\ shown["ansible_host"] = listed["ansible_host"]
            /\ shown["ansible_password"] = listed["ansible_password"]

\* C5: in every document get_inventory returns, each hostname in the hosts
\* list of a group has a key in _meta.hostvars.
C5_HostsHaveHostvars ==
    pc = "gi_return" =>
        \A g \in DOMAIN inventory.v \ {"_meta"} :
            \A i \in DOMAIN inventory.v[g].v["hosts"].v :
                /\ "_meta" \in DOMAIN inventory.v
                /\ inventory.v[g].v["hosts"].v[i].v
                       \in DOMAIN inventory.v["_meta"].v["hostvars"].v

C5_Witness ==
    /\ pc = "gi_return"
    /\ "servers" \in DOMAIN inventory.v
    /\ inventory.v["servers"].v["hosts"].v[1].v = "dev-server"
    /\ "dev-server" \in DOMAIN inventory.v["_meta"].v["hostvars"].v

C7_UnknownHostEmpty ==
    (/\ pc = "exited"
     /\ Len(Extra) = 2
     /\ Extra[1] = "--host"
     /\ Extra[2] \notin DOMAIN get_inventory.v["_meta"].v["hostvars"].v) =>
        /\ stdout = <<[t |-> "object", v |-> <<>>]>>
        /\ exit_code = 0

C7_Witness ==
    /\ pc = "exited"
    /\ Extra = <<"--host", "web1">>
    /\ ~SelectorRecognized
    /\ "dev-server" \in DOMAIN get_inventory.v["_meta"].v["hostvars"].v
    /\ stdout = <<[t |-> "object", v |-> <<>>]>>
    /\ exit_code = 0

\* C8: the merge step is a shallow key-wise overwrite: afterwards each key of
\* the adapter result holds the adapter's value, each other key of the base
\* document holds its base value, and no other key exists.  So the default
\* path ends with exactly the static hostvars, and a path whose adapter
\* returns no '_meta' ends with the empty base hostvars.
C8_ShallowMerge ==
    [][pc = "gi_update" =>
        /\ DOMAIN inventory'.v = DOMAIN inventory.v \cup DOMAIN partial.v
        /\ \A k \in DOMAIN partial.v : inventory'.v[k] = partial.v[k]
        /\ \A k \in DOMAIN inventory.v \ DOMAIN partial.v : inventory'.v[k] = inventory.v[k]
        /\ called = <<"default">> =>
               inventory'.v["_meta"].v["hostvars"] =
                   [t |-> "dict", v |->
                       ("dev-server" :> [t |-> "dict", v |->
                           [ansible_host |-> [t |-> "str", v |-> "192.168.88.2"],
                            ansible_password |-> ExpectedPassword]])]
        /\ "_meta" \notin DOMAIN partial.v =>
               inventory'.v["_meta"].v["hostvars"] = [t |-> "dict", v |-> <<>>]
    ]_vars

C8_Witness ==
    /\ pc = "gi_return"
    /\ called = <<"default">>
    /\ "_meta" \in DOMAIN partial.v
    /\ inventory.v["_meta"] = partial.v["_meta"]
    /\ inventory.v["_meta"].v["hostvars"].v # <<>>

\* C9: one invocation dispatches to exactly one adapter; with selector 'aws'
\* it is the AWS adapter and with 'digitalocean' the DigitalOcean adapter, and
\* then the returned document has '_meta' with empty hostvars as its only
\* key: no servers group and no dev-server entry.
C9_SingleDispatch ==
    /\ Len(called) <= 1
    /\ pc \in {"gi_update", "gi_return", "exited"} /\ Extra = <<"--list">> =>
           Len(called) = 1
    /\ (pc = "gi_return" /\ SelectorRecognized) =>
        /\ called = <<environ["ANSIBLE_INVENTORY_SOURCE"]>>
        /\ DOMAIN inventory.v = {"_meta"}
        /\ inventory.v["_meta"] =
               [t |-> "dict", v |-> [hostvars |-> [t |-> "dict", v |-> <<>>]]]
    /\ (pc = "gi_return" /\ ~SelectorRecognized) => called = <<"default">>

C9_Witness ==
    /\ pc = "gi_return"
    /\ called = <<"digitalocean">>
    /\ DOMAIN inventory.v = {"_meta"}

\* C10: the static source always yields a document; ansible_user is
\* ANSIBLE_USER when set and 'ansible' when unset; ansible_become_password
\* and the host's ansible_password are equal, both ANSIBLE_PASSWORD when set
\* and null when unset.
C10_StaticSubstitution ==
    (pc \in {"gi_update", "gi_return"} /\ ~SelectorRecognized) =>
        /\ partial.t = "dict"
        /\ pc = "gi_return" =>
            LET groupVars == inventory.v["servers"].v["vars"].v
                hostVars == inventory.v["_meta"].v["hostvars"].v["dev-server"].v
            IN  /\ inventory.t = "dict"
                /\ groupVars["ansible_user"] = ExpectedUser
                /\ groupVars["ansible_become_password"] = hostVars["ansible_password"]
                /\ hostVars["ansible_password"] = ExpectedPassword

C10_Witness ==
    /\ pc = "gi_return"
    /\ ~SelectorRecognized
    /\ "ANSIBLE_USER" \in DOMAIN environ
    /\ environ["ANSIBLE_USER"] = ""
    /\ "ANSIBLE_PASSWORD" \notin DOMAIN environ
    /\ inventory.v["servers"].v["vars"].v["ansible_user"] = [t |-> "str", v |-> ""]
    /\ inventory.v["_meta"].v["hostvars"].v["dev-server"].v["ansible_password"].t = "none"

====
